---- MODULE Spec2Model ----
(***************************************************************************)
(* Model of the Streamlit interview simulator (src/app.py).                *)
(*                                                                         *)
(* A Streamlit program is a script that is run again from the top after    *)
(* every widget event; a button's on_click callback runs first, then the   *)
(* script.  st.session_state is the only state that survives a run.  The   *)
(* model has one action per event; each action is the callback followed by *)
(* the whole script run.  The one run that is not atomic is the run that   *)
(* streams an assistant reply (app.py 244-261): the loop polls             *)
(* stop_requested on every chunk, so the stop request is interleaved with  *)
(* the chunk pulls.                                                        *)
(***************************************************************************)
EXTENDS Integers, Sequences, FiniteSets, TLC

VARIABLES
    \* st.session_state (app.py 66-83)
    setup_complete, user_message_count, feedback_shown, chat_complete,
    messages, stop_requested, stopped_early,
    \* position of the running script: "idle" between runs, "streaming"
    \* inside the loop of app.py 248-259
    pc,
    stream,          \* the chunks the completion stream has yet to yield
    full_response,   \* local of the streaming run (app.py 246)
    ui,              \* widgets the last (or the running) script run rendered
    escFlag,         \* browser side: window.name = 'STOP_REQUESTED' (app.py 207)
    feedback_view,   \* what the feedback screen wrote (app.py 340 / 342)
    \* observation only
    scoreCalls,      \* scoring-service calls made in this session (app.py 315)
    completionCalls, \* completion-service calls made in this session (app.py 238)
    firstStopCount,  \* user_message_count when the first stop was requested, -1 before
    midStopTurn,     \* turn whose reply was streaming at the first stop, 0 if none
    stopText,        \* full_response at that moment
    stopAt,          \* chunks pulled from the stream at that moment, -1 if none
    pulled,          \* chunks the loop pulled from the stream of the last turn
    lastOutcome,     \* how the last submitted message ended
    stopSource,      \* source of the stop the last step requested, "none" if none
    lastOp           \* the last operation

vars == <<setup_complete, user_message_count, feedback_shown, chat_complete,
          messages, stop_requested, stopped_early, pc, stream, full_response,
          ui, escFlag, feedback_view, scoreCalls, completionCalls,
          firstStopCount, midStopTurn, stopText, stopAt, pulled, lastOutcome,
          stopSource, lastOp>>

(***************************************************************************)
(* Bounds and inputs                                                       *)
(***************************************************************************)
MaxScoreCalls == 2   \* scoring calls followed per session

MaxTurns == 5        \* app.py 228
ReplyTurns == 4      \* app.py 235

\* A text is a sequence of tokens; "+=" on strings is concatenation.
Prompts == { <<"hi">> }
SystemText == <<"You are an HR executive">>

Txt(t) == [kind |-> "text", text |-> t]
RoleOnly == [kind |-> "none", text |-> <<>>]   \* delta.content is None
Broken == [kind |-> "broken", text |-> <<>>]   \* chunk.choices[0] raises

\* The finite chunk sequences the completion service may yield.
Streams ==
    { <<>>,
      << Txt(<<"Hel">>), Txt(<<"lo ">>), Txt(<<"world">>) >>,
      << RoleOnly, Txt(<<"a">>), Txt(<<>>), Broken, Txt(<<"b">>) >> }

(***************************************************************************)
(* Session state as one record, and the callbacks                          *)
(***************************************************************************)
\* app.py 66-83 (the profile fields and the model name are left out: no
\* branch of the script reads them)
defaults ==
    [ setup_complete |-> FALSE, user_message_count |-> 0,
      feedback_shown |-> FALSE, chat_complete |-> FALSE, messages |-> <<>>,
      stop_requested |-> FALSE, stopped_early |-> FALSE ]

SS ==
    [ setup_complete |-> setup_complete, user_message_count |-> user_message_count,
      feedback_shown |-> feedback_shown, chat_complete |-> chat_complete,
      messages |-> messages, stop_requested |-> stop_requested,
      stopped_early |-> stopped_early ]

Store(s) ==
    /\ setup_complete' = s.setup_complete
    /\ user_message_count' = s.user_message_count
    /\ feedback_shown' = s.feedback_shown
    /\ chat_complete' = s.chat_complete
    /\ messages' = s.messages
    /\ stop_requested' = s.stop_requested
    /\ stopped_early' = s.stopped_early

Msg(role, content) == [role |-> role, content |-> content]

\* app.py 89-91
complete_setup(s) == [s EXCEPT !.setup_complete = TRUE]

\* app.py 94-96
show_feedback(s) == [s EXCEPT !.feedback_shown = TRUE]

\* Variants of request_stop, each a slip the claims must detect:
\* the early flag given for one message as well
request_stop_lax(s) ==
    [s EXCEPT !.stop_requested = TRUE,
              !.stopped_early = IF s.user_message_count <= 1 THEN TRUE ELSE @,
              !.chat_complete = TRUE]

\* the early flag forgotten
request_stop_no_early(s) ==
    [s EXCEPT !.stop_requested = TRUE, !.chat_complete = TRUE]

\* the early flag assigned on every call instead of only raised
request_stop_assigns(s) ==
    [s EXCEPT !.stop_requested = TRUE,
              !.stopped_early = (s.user_message_count = 0),
              !.chat_complete = TRUE]

\* app.py 99-104
request_stop(s) ==
    [s EXCEPT !.stop_requested = TRUE,
              !.stopped_early = IF s.user_message_count = 0 THEN TRUE ELSE @,
              !.chat_complete = TRUE]

(***************************************************************************)
(* The script, block by block                                              *)
(***************************************************************************)
\* Variant of InterviewPhase: chat_complete not read
InterviewPhase_ignores_complete(s) == s.setup_complete /\ ~s.feedback_shown

\* app.py 163
InterviewPhase(s) ==
    s.setup_complete /\ ~s.feedback_shown /\ ~s.chat_complete

\* Variant of InitSystemMessage: the transcript set up on every run
InitSystemMessage_every_run(s) ==
    [s EXCEPT !.messages = << Msg("system", SystemText) >>]

\* app.py 166-178
InitSystemMessage(s) ==
    IF s.messages = <<>>
    THEN [s EXCEPT !.messages = << Msg("system", SystemText) >>]
    ELSE s

\* Variant of EscStopPath: the early flag forgotten
EscStopPath_no_early(s, sig) ==
    IF sig
    THEN [s EXCEPT !.stop_requested = TRUE, !.chat_complete = TRUE]
    ELSE s

\* Variant of EscStopPath: the early flag raised whatever the count
EscStopPath_always_early(s, sig) ==
    IF sig
    THEN [s EXCEPT !.stop_requested = TRUE, !.stopped_early = TRUE,
                   !.chat_complete = TRUE]
    ELSE s

\* app.py 219-223; sig: esc_signal[1] == "STOP_REQUESTED"
EscStopPath(s, sig) ==
    IF sig
    THEN [s EXCEPT !.stop_requested = TRUE,
                   !.stopped_early = IF s.user_message_count = 0 THEN TRUE ELSE @,
                   !.chat_complete = TRUE]
    ELSE s

\* Variant of InputGate: the stop flag not read
InputGate_ignores_stop(s) == s.user_message_count < MaxTurns

\* app.py 228
InputGate(s) == s.user_message_count < MaxTurns /\ ~s.stop_requested

\* app.py 230
AppendUser(s, prompt) ==
    [s EXCEPT !.messages = Append(@, Msg("user", prompt))]

\* Variant of GeneratesReply: off by one
GeneratesReply_off_by_one(s) == s.user_message_count <= ReplyTurns

\* app.py 235
GeneratesReply(s) == s.user_message_count < ReplyTurns

\* Variant of Accumulate: the delta put in front of the text so far
Accumulate_prepends(resp, chunk) ==
    IF chunk.kind = "text" /\ chunk.text # <<>> THEN chunk.text \o resp ELSE resp

\* app.py 253-258: the chunk's delta is added when it is a non-empty text
Accumulate(resp, chunk) ==
    IF chunk.kind = "text" /\ chunk.text # <<>> THEN resp \o chunk.text ELSE resp

\* app.py 263-269
PersistReply(s, text) ==
    [s EXCEPT !.chat_complete = IF s.stop_requested THEN TRUE ELSE @,
              !.messages = Append(@, Msg("assistant", text))]

\* Variant of IncrementCount: the increment moved under the reply gate
IncrementCount_under_gate(s) ==
    IF s.user_message_count < ReplyTurns
    THEN [s EXCEPT !.user_message_count = @ + 1]
    ELSE s

\* Variant of IncrementCount: the increment moved into the try block, after
\* the reply is persisted
IncrementCount_in_try(s) ==
    IF s.messages # <<>> /\ s.messages[Len(s.messages)].role = "assistant"
    THEN [s EXCEPT !.user_message_count = @ + 1]
    ELSE s

\* app.py 274-275
IncrementCount(s) == [s EXCEPT !.user_message_count = @ + 1]

\* Variant of EndOfInterview: off by one
EndOfInterview_off_by_one(s) ==
    IF s.user_message_count > MaxTurns \/ s.stop_requested
    THEN [s EXCEPT !.chat_complete = TRUE]
    ELSE s

\* app.py 277-279
EndOfInterview(s) ==
    IF s.user_message_count >= MaxTurns \/ s.stop_requested
    THEN [s EXCEPT !.chat_complete = TRUE]
    ELSE s

\* app.py 282-289
FeedbackButton(s) ==
    /\ s.chat_complete /\ ~s.feedback_shown
    /\ ~s.stopped_early /\ s.user_message_count > 0

\* app.py 291-298
RestartEarlyButton(s) ==
    s.chat_complete /\ ~s.feedback_shown /\ s.stopped_early

\* app.py 301-307
FeedbackGuard(s) == s.stopped_early \/ s.user_message_count = 0

\* app.py 308-342: the feedback screen reaches the scoring call
Scores(s) == s.feedback_shown /\ ~FeedbackGuard(s)

\* app.py 281-354: the widgets the rest of the script renders
TailUI(s) ==
    (IF FeedbackButton(s) THEN {"feedback"} ELSE {})
    \cup (IF RestartEarlyButton(s) THEN {"restart_early"} ELSE {})
    \cup (IF s.feedback_shown /\ FeedbackGuard(s) THEN {"restart_guard"} ELSE {})
    \cup (IF Scores(s) THEN {"download", "restart"} ELSE {})

\* f"{role}: {content}" (app.py 311, 345)
Line(m) == << m.role, ": " >> \o m.content

\* "\n".join(lines) (app.py 310, 345)
RECURSIVE JoinLines(_)
JoinLines(lines) ==
    IF lines = <<>> THEN <<>>
    ELSE IF Len(lines) = 1 THEN lines[1]
    ELSE lines[1] \o << "\n" >> \o JoinLines(Tail(lines))

\* app.py 310-312: the transcript as sent to the scoring service
ConversationHistory(s) ==
    JoinLines([i \in DOMAIN s.messages |-> Line(s.messages[i])])

\* app.py 344-351: the transcript as offered for download
Transcript(s) ==
    JoinLines([i \in DOMAIN s.messages |-> Line(s.messages[i])])

\* app.py 108-159: the setup form with its Start Interview button
SetupUI(s) == IF ~s.setup_complete THEN {"start"} ELSE {}

\* app.py 163-225: the interview phase down to the input gate
RunToInput(s, sig) == EscStopPath(InitSystemMessage(s), sig)

\* app.py 186-229: Stop button (enabled as rendered at 195), ESC listener,
\* chat input
InterviewUI(s, sig) ==
    IF InterviewPhase(s)
    THEN (IF ~s.stop_requested THEN {"stop"} ELSE {}) \cup {"esc"}
         \cup (IF InputGate(RunToInput(s, sig)) THEN {"input"} ELSE {})
    ELSE {}

\* app.py 108-354: a whole script run in which no chat message is taken
RunNoPrompt(s, sig) ==
    LET t == IF InterviewPhase(s) THEN EndOfInterview(RunToInput(s, sig)) ELSE s
    IN  [ s |-> t, ui |-> SetupUI(s) \cup InterviewUI(s, sig) \cup TailUI(t) ]

\* app.py 263-354: the end of a run that took a chat message
RunAfterTurn(s) ==
    LET t == EndOfInterview(IncrementCount(s))
    IN  [ s |-> t, ui |-> {"stop", "esc", "input"} \cup TailUI(t) ]

(***************************************************************************)
(* Bookkeeping shared by the actions                                       *)
(***************************************************************************)
NumRole(msgs, role) == Cardinality({i \in DOMAIN msgs : msgs[i].role = role})

EscSignals == IF escFlag THEN {TRUE, FALSE} ELSE {FALSE}

\* A stop request made in this step (fires), by src, while the reply of turn
\* `turn` was streaming (0: between turns) with `text` accumulated.
NoteStop(fires, src, turn, text) ==
    /\ stopSource' = IF fires THEN src ELSE "none"
    /\ firstStopCount' =
          IF fires /\ firstStopCount = -1 THEN user_message_count ELSE firstStopCount
    /\ midStopTurn' = IF fires /\ firstStopCount = -1 THEN turn ELSE midStopTurn
    /\ stopText' = IF fires /\ firstStopCount = -1 THEN text ELSE stopText
    /\ stopAt' = IF fires /\ firstStopCount = -1 /\ turn > 0
                 THEN Len(pulled) ELSE stopAt

\* The script ran to its end: r is the run's result, ok the scoring
\* service's answer when the feedback screen calls it (app.py 314-342).
EndRun(r, ok) ==
    /\ Store(r.s)
    /\ ui' = r.ui
    /\ pc' = "idle"
    /\ stream' = <<>>
    /\ full_response' = <<>>
    /\ scoreCalls' = IF Scores(r.s) THEN scoreCalls + 1 ELSE scoreCalls
    /\ feedback_view' =
          IF Scores(r.s) THEN (IF ok THEN "report" ELSE "error") ELSE "none"

(***************************************************************************)
(* Initial state: a fresh session in a fresh browser tab                   *)
(***************************************************************************)
Init ==
    /\ setup_complete = defaults.setup_complete
    /\ user_message_count = defaults.user_message_count
    /\ feedback_shown = defaults.feedback_shown
    /\ chat_complete = defaults.chat_complete
    /\ messages = defaults.messages
    /\ stop_requested = defaults.stop_requested
    /\ stopped_early = defaults.stopped_early
    /\ pc = "idle"
    /\ stream = <<>>
    /\ full_response = <<>>
    /\ ui = {"start"}
    /\ escFlag = FALSE
    /\ feedback_view = "none"
    /\ scoreCalls = 0
    /\ completionCalls = 0
    /\ firstStopCount = -1
    /\ midStopTurn = 0
    /\ stopText = <<>>
    /\ stopAt = -1
    /\ pulled = <<>>
    /\ lastOutcome = "none"
    /\ stopSource = "none"
    /\ lastOp = "Init"

(***************************************************************************)
(* Events between script runs                                              *)
(***************************************************************************)
\* "Start Interview" (app.py 159): complete_setup, then the script runs
StartInterview ==
    /\ pc = "idle" /\ "start" \in ui
    /\ \E sig \in EscSignals :
         LET s0 == complete_setup(SS) IN
         /\ EndRun(RunNoPrompt(s0, sig), TRUE)
         /\ NoteStop(InterviewPhase(s0) /\ sig, "esc", 0, <<>>)
    /\ lastOp' = "StartInterview"
    /\ UNCHANGED <<escFlag, completionCalls, lastOutcome, pulled>>

\* The Stop button between turns (app.py 190-196): request_stop, then the
\* script runs
ClickStop ==
    /\ pc = "idle" /\ "stop" \in ui
    /\ EndRun(RunNoPrompt(request_stop(SS), FALSE), TRUE)
    /\ NoteStop(TRUE, "button", 0, <<>>)
    /\ lastOp' = "ClickStop"
    /\ UNCHANGED <<escFlag, completionCalls, lastOutcome, pulled>>

\* The Stop button while a reply streams: request_stop sets the flags the
\* loop of app.py 248-251 polls; the running script goes on
ClickStopMidStream ==
    /\ pc = "streaming" /\ "stop" \in ui
    /\ Store(request_stop(SS))
    /\ NoteStop(TRUE, "button", NumRole(messages, "user"), full_response)
    /\ lastOp' = "ClickStopMidStream"
    /\ UNCHANGED <<pc, stream, full_response, ui, escFlag, feedback_view,
                   scoreCalls, completionCalls, lastOutcome, pulled>>

\* The ESC key, once the listener of app.py 204-211 is installed
PressEsc ==
    /\ setup_complete /\ ~escFlag
    /\ escFlag' = TRUE
    /\ lastOp' = "PressEsc"
    /\ stopSource' = "none"
    /\ UNCHANGED <<setup_complete, user_message_count, feedback_shown,
                   chat_complete, messages, stop_requested, stopped_early, pc,
                   stream, full_response, ui, feedback_view, scoreCalls,
                   completionCalls, firstStopCount, midStopTurn, stopText,
                   stopAt, pulled, lastOutcome>>

\* The ESC listener component delivers its value: the script runs
\* (app.py 199-225)
EscRerun ==
    /\ pc = "idle" /\ "esc" \in ui /\ escFlag
    /\ EndRun(RunNoPrompt(SS, TRUE), TRUE)
    /\ NoteStop(InterviewPhase(SS), "esc", 0, <<>>)
    /\ lastOp' = "EscRerun"
    /\ UNCHANGED <<escFlag, completionCalls, lastOutcome, pulled>>

\* "Get Feedback" (app.py 288): show_feedback, then the script runs and the
\* feedback screen calls the scoring service (app.py 301-342)
GetFeedback ==
    /\ pc = "idle" /\ "feedback" \in ui
    /\ \E ok \in BOOLEAN :
         EndRun(RunNoPrompt(show_feedback(SS), FALSE), ok)
    /\ NoteStop(FALSE, "none", 0, <<>>)
    /\ lastOp' = "GetFeedback"
    /\ UNCHANGED <<escFlag, completionCalls, lastOutcome, pulled>>

\* "Download Transcript" (app.py 346-351): the click runs the script again
DownloadTranscript ==
    /\ pc = "idle" /\ "download" \in ui
    /\ scoreCalls < MaxScoreCalls
    /\ \E ok \in BOOLEAN : EndRun(RunNoPrompt(SS, FALSE), ok)
    /\ NoteStop(FALSE, "none", 0, <<>>)
    /\ lastOp' = "DownloadTranscript"
    /\ UNCHANGED <<escFlag, completionCalls, lastOutcome, pulled>>

\* Variant of Restart: the ESC flag left as it was
Restart_keeps_signal ==
    /\ pc = "idle"
    /\ ui \cap {"restart_early", "restart_guard", "restart"} # {}
    /\ Store(defaults)
    /\ pc' = "idle"
    /\ stream' = <<>>
    /\ full_response' = <<>>
    /\ ui' = {"start"}
    /\ escFlag' = escFlag
    /\ feedback_view' = "none"
    /\ scoreCalls' = 0
    /\ completionCalls' = 0
    /\ firstStopCount' = -1
    /\ midStopTurn' = 0
    /\ stopText' = <<>>
    /\ stopAt' = -1
    /\ pulled' = <<>>
    /\ lastOutcome' = "none"
    /\ stopSource' = "none"
    /\ lastOp' = "Restart"

\* "Restart Interview" (app.py 297-298, 305-306, 353-354): the page is
\* reloaded, which starts a new session with the defaults of app.py 66-86
\* (the script run the click causes before the reload changes nothing that
\* outlives it).  The listener and window.name of app.py 204-215 live in the
\* frame of the js-eval component ("parent." at 298 is the page); the reload
\* of the page discards that frame, and with it the flag.
Restart ==
    /\ pc = "idle"
    /\ ui \cap {"restart_early", "restart_guard", "restart"} # {}
    /\ Store(defaults)
    /\ pc' = "idle"
    /\ stream' = <<>>
    /\ full_response' = <<>>
    /\ ui' = {"start"}
    /\ escFlag' = FALSE
    /\ feedback_view' = "none"
    /\ scoreCalls' = 0
    /\ completionCalls' = 0
    /\ firstStopCount' = -1
    /\ midStopTurn' = 0
    /\ stopText' = <<>>
    /\ stopAt' = -1
    /\ pulled' = <<>>
    /\ lastOutcome' = "none"
    /\ stopSource' = "none"
    /\ lastOp' = "Restart"

(***************************************************************************)
(* A chat message is submitted (app.py 227-279)                            *)
(***************************************************************************)
\* The run takes the message: the interview phase is entered (163) and the
\* input gate (228), read after the ESC path, is open
Accepts(s, sig) == InterviewPhase(s) /\ InputGate(RunToInput(s, sig))

\* The message is not taken: the chat input is not rendered in this run
SubmitRejected ==
    /\ pc = "idle" /\ "input" \in ui
    /\ \E prompt \in Prompts, sig \in EscSignals :
         /\ ~Accepts(SS, sig)
         /\ EndRun(RunNoPrompt(SS, sig), TRUE)
         /\ NoteStop(InterviewPhase(SS) /\ sig, "esc", 0, <<>>)
    /\ lastOutcome' = "rejected"
    /\ lastOp' = "Submit"
    /\ UNCHANGED <<escFlag, completionCalls, pulled>>

\* The 5th message: stored, no reply asked for (app.py 230, 235, 275)
SubmitFinal ==
    /\ pc = "idle" /\ "input" \in ui
    /\ \E prompt \in Prompts, sig \in EscSignals :
         /\ Accepts(SS, sig)
         /\ LET u == AppendUser(RunToInput(SS, sig), prompt) IN
            /\ ~GeneratesReply(u)
            /\ EndRun(RunAfterTurn(u), TRUE)
    /\ NoteStop(FALSE, "none", 0, <<>>)
    /\ lastOutcome' = "no_reply"
    /\ lastOp' = "Submit"
    /\ pulled' = <<>>
    /\ UNCHANGED <<escFlag, completionCalls>>

\* client.chat.completions.create raises (app.py 238, 271-272): nothing is
\* appended for the assistant
SubmitCreateFails ==
    /\ pc = "idle" /\ "input" \in ui
    /\ \E prompt \in Prompts, sig \in EscSignals :
         /\ Accepts(SS, sig)
         /\ LET u == AppendUser(RunToInput(SS, sig), prompt) IN
            /\ GeneratesReply(u)
            /\ EndRun(RunAfterTurn(u), TRUE)
    /\ completionCalls' = completionCalls + 1
    /\ NoteStop(FALSE, "none", 0, <<>>)
    /\ lastOutcome' = "create_failed"
    /\ lastOp' = "Submit"
    /\ pulled' = <<>>
    /\ UNCHANGED <<escFlag>>

\* The call returns a stream (app.py 238-246): the run enters the loop
SubmitStreams ==
    /\ pc = "idle" /\ "input" \in ui
    /\ \E prompt \in Prompts, sig \in EscSignals, st \in Streams :
         /\ Accepts(SS, sig)
         /\ LET u == AppendUser(RunToInput(SS, sig), prompt) IN
            /\ GeneratesReply(u)
            /\ Store(u)
         /\ stream' = st
    /\ pc' = "streaming"
    /\ full_response' = <<>>
    /\ ui' = {"stop", "esc", "input"}
    /\ completionCalls' = completionCalls + 1
    /\ NoteStop(FALSE, "none", 0, <<>>)
    /\ lastOutcome' = "streaming"
    /\ lastOp' = "Submit"
    /\ pulled' = <<>>
    /\ UNCHANGED <<escFlag, feedback_view, scoreCalls>>

(***************************************************************************)
(* The streaming loop (app.py 247-261) and the end of the turn (263-279)   *)
(***************************************************************************)
\* The turn ends with `text` accumulated
EndTurn(text, outcome) ==
    /\ EndRun(RunAfterTurn(PersistReply(SS, text)), TRUE)
    /\ NoteStop(FALSE, "none", 0, <<>>)
    /\ lastOutcome' = outcome
    /\ UNCHANGED <<escFlag, completionCalls>>

\* `for chunk in stream` yields a chunk; the stop flag is read next (250):
\* set, the loop breaks and the chunk is dropped; clear, the chunk's text is
\* added
StreamChunk ==
    /\ pc = "streaming" /\ stream # <<>>
    /\ pulled' = Append(pulled, Head(stream))
    /\ IF stop_requested
       THEN EndTurn(full_response, "aborted")
       ELSE /\ full_response' = Accumulate(full_response, Head(stream))
            /\ stream' = Tail(stream)
            /\ NoteStop(FALSE, "none", 0, <<>>)
            /\ UNCHANGED <<setup_complete, user_message_count, feedback_shown,
                           chat_complete, messages, stop_requested,
                           stopped_early, pc, ui, escFlag, feedback_view,
                           scoreCalls, completionCalls, lastOutcome>>
    /\ lastOp' = "StreamChunk"

\* The stream is exhausted: the loop ends
StreamEnd ==
    /\ pc = "streaming" /\ stream = <<>>
    /\ EndTurn(full_response, IF stop_requested THEN "aborted" ELSE "completed")
    /\ lastOp' = "StreamEnd"
    /\ UNCHANGED pulled

\* Variant of StreamRaise: the text accumulated so far lost with the failure
StreamRaise_loses_text ==
    /\ pc = "streaming"
    /\ EndTurn(<<>>, "stream_raised")
    /\ lastOp' = "StreamRaise"
    /\ UNCHANGED pulled

\* The stream raises on a pull (app.py 260-261)
StreamRaise ==
    /\ pc = "streaming"
    /\ EndTurn(full_response, "stream_raised")
    /\ lastOp' = "StreamRaise"
    /\ UNCHANGED pulled

Next ==
    \/ StartInterview
    \/ ClickStop
    \/ ClickStopMidStream
    \/ PressEsc
    \/ EscRerun
    \/ SubmitRejected
    \/ SubmitFinal
    \/ SubmitCreateFails
    \/ SubmitStreams
    \/ StreamChunk
    \/ StreamEnd
    \/ StreamRaise
    \/ GetFeedback
    \/ DownloadTranscript
    \/ Restart

Spec == Init /\ [][Next]_vars

(***************************************************************************)
(* Properties                                                              *)
(***************************************************************************)
NumUser == NumRole(messages, "user")
NumAssistant == NumRole(messages, "assistant")

\* The first stop of the session came while the reply of turn n streamed
StoppedMidStream(n) == firstStopCount # -1 /\ midStopTurn = n

\* The first stop of the session came between turns at count k
StoppedBetweenTurns(k) == firstStopCount = k /\ midStopTurn = 0

\* C1: a stop requested while the reply of turn N (1 <= N <= 4) streams:
\* once the turn has ended, the text accumulated at the stop is the turn's
\* assistant message, user_message_count is N, the interview is complete
\* and not stopped early, and Get Feedback is offered.
C1_MidStreamStopCompletes ==
    \A n \in 1..ReplyTurns :
        (StoppedMidStream(n) /\ pc = "idle") =>
            /\ messages[Len(messages)] = Msg("assistant", stopText)
            /\ user_message_count = n
            /\ chat_complete
            /\ ~stopped_early
            /\ (~feedback_shown => "feedback" \in ui)

\* What the code does keep for every N: the partial text, the count and the
\* end of the interview; the early flag is raised exactly for N = 1.
C1_MidStreamStopKeepsText ==
    \A n \in 1..ReplyTurns :
        (StoppedMidStream(n) /\ pc = "idle") =>
            /\ messages[Len(messages)] = Msg("assistant", stopText)
            /\ user_message_count = n
            /\ chat_complete
            /\ (stopped_early <=> n = 1)
            /\ (~feedback_shown => ("feedback" \in ui <=> n > 1))

StoppedEarlyView ==
    /\ pc = "idle"
    /\ stopped_early /\ chat_complete /\ ~feedback_shown
    /\ NumUser = 0 /\ user_message_count = 0
    /\ scoreCalls = 0
    /\ "restart_early" \in ui
    /\ ui \cap {"start", "input", "feedback", "download"} = {}

C4_StopBetweenTurnsCompletes ==
    \A k \in 1..(MaxTurns - 1) :
        StoppedBetweenTurns(k) =>
            /\ pc = "idle"
            /\ chat_complete /\ ~stopped_early
            /\ user_message_count = k /\ NumUser = k
            /\ ~Accepts(SS, FALSE)
            /\ (~feedback_shown => "feedback" \in ui)

C4_Witness ==
    /\ StoppedBetweenTurns(2) /\ stopSource = "esc" /\ "feedback" \in ui

C6_StopFlagsMonotonic ==
    [][ /\ stopSource' # "none" => stop_requested'
        /\ lastOp' # "Restart" =>
              /\ stop_requested => stop_requested'
              /\ stopped_early => stopped_early'
        /\ (stop_requested /\ stopSource' # "none") => SS' = SS ]_vars

\* The first stop came mid-stream on turn 1 (count 0); a second stop was
\* requested after the count had gone to 1
C6_Witness ==
    /\ StoppedMidStream(1) /\ user_message_count = 1
    /\ lastOp = "ClickStop" /\ stopped_early

\* C7: a submitted message is accepted exactly when the interview phase is
\* on, user_message_count < 5 and no stop is requested (the ESC signal read
\* by the same run included); between turns of the interview phase the count
\* is in 0..4, no stop is requested and the input is rendered; the count
\* never exceeds 5.
C7_InputAcceptedIffBudgetAndNoStop ==
    [][ /\ lastOp' = "Submit" =>
              /\ (NumUser' = NumUser + 1) <=>
                    (InterviewPhase(SS) /\ user_message_count < 5 /\ ~stop_requested')
              /\ (NumUser' # NumUser + 1) => messages' = messages
        /\ lastOp' # "Submit" => NumUser' <= NumUser
        /\ (InterviewPhase(SS') /\ pc' = "idle") =>
              /\ user_message_count' \in 0..4 /\ ~stop_requested'
              /\ "input" \in ui'
        /\ user_message_count' <= 5 ]_vars

\* A message submitted on the input left on the page after an ESC stop was
\* read by the same run, with budget left
C7_Witness ==
    /\ lastOp = "Submit" /\ lastOutcome = "rejected"
    /\ stopSource = "esc" /\ user_message_count = 3 /\ NumUser = 3

\* C8: an accepted message calls the completion service exactly when
\* user_message_count at acceptance is < 4; nothing else calls it; a session
\* makes at most 4 completion calls and holds at most 4 assistant messages.
C8_ReplyOnlyForFirstFour ==
    [][ /\ (lastOp' = "Submit" /\ NumUser' = NumUser + 1) =>
              ((completionCalls' = completionCalls + 1) <=> user_message_count < 4)
        /\ (lastOp' = "Submit" /\ NumUser' = NumUser + 1 /\ user_message_count >= 4) =>
              (completionCalls' = completionCalls /\ NumAssistant' = NumAssistant)
        /\ (lastOp' # "Restart" /\ ~(lastOp' = "Submit" /\ NumUser' = NumUser + 1)) =>
              completionCalls' = completionCalls
        /\ completionCalls' <= 4
        /\ NumAssistant' <= 4 ]_vars

C8_Witness ==
    /\ lastOp = "Submit" /\ lastOutcome = "no_reply"
    /\ user_message_count = 5 /\ completionCalls = 4

\* The step ends the handling of an accepted message
TurnEnds ==
    \/ lastOp' = "Submit" /\ lastOutcome' \in {"no_reply", "create_failed"}
    \/ pc = "streaming" /\ pc' = "idle"

\* C9: the handling of every accepted user message raises
\* user_message_count by exactly one (no reply asked for, reply aborted by
\* a stop, stream raised, completion call failed, reply completed); while
\* the reply streams the count is one behind the accepted messages; no other
\* operation of the session changes the count.
C9_CountIncrementsOncePerTurn ==
    [][ /\ TurnEnds => user_message_count' = user_message_count + 1
        /\ (~TurnEnds /\ lastOp' # "Restart") =>
              user_message_count' = user_message_count
        /\ pc' = "streaming" => NumUser' = user_message_count' + 1
        /\ (lastOp' = "Submit" /\ NumUser' = NumUser + 1) =>
              (TurnEnds \/ pc' = "streaming")
        /\ TurnEnds =>
              lastOutcome' \in {"no_reply", "create_failed", "completed",
                                "aborted", "stream_raised"} ]_vars

\* The completion call failed on turn 2
C9_Witness ==
    /\ lastOp = "Submit" /\ lastOutcome = "create_failed"
    /\ user_message_count = 2 /\ NumAssistant = 1

\* C10: once feedback is requested, one scoring call is made and activity on
\* the feedback screen that is no new request (download, re-render) makes
\* no further call.
C10_OneScoringCallPerRequest ==
    feedback_shown => scoreCalls = 1

\* C11: when the scoring call fails the session is still in Completed with
\* feedback not shown, as before the request, and Get Feedback is offered
\* again.
C11_FailedScoringKeepsPhase ==
    feedback_view = "error" => (~feedback_shown /\ "feedback" \in ui)

(***************************************************************************)
(* The streaming loop on its own: every fragment sequence up to MaxFrags   *)
(* fragments, the stop arriving at any point                               *)
(***************************************************************************)
MaxFrags == 3

AsmChunks ==
    { Txt(<<"Hel">>), Txt(<<"lo ">>), Txt(<<"world">>), RoleOnly, Txt(<<>>), Broken }

AsmStreams == UNION { [1..n -> AsmChunks] : n \in 0..MaxFrags }

\* The state SubmitStreams leaves for the first message of a session, the
\* completion service yielding any of AsmStreams
InitAsm ==
    /\ setup_complete = TRUE
    /\ user_message_count = 0
    /\ feedback_shown = FALSE
    /\ chat_complete = FALSE
    /\ messages = << Msg("system", SystemText), Msg("user", <<"hi">>) >>
    /\ stop_requested = FALSE
    /\ stopped_early = FALSE
    /\ pc = "streaming"
    /\ stream \in AsmStreams
    /\ full_response = <<>>
    /\ ui = {"stop", "esc", "input"}
    /\ escFlag = FALSE
    /\ feedback_view = "none"
    /\ scoreCalls = 0
    /\ completionCalls = 1
    /\ firstStopCount = -1
    /\ midStopTurn = 0
    /\ stopText = <<>>
    /\ stopAt = -1
    /\ pulled = <<>>
    /\ lastOutcome = "streaming"
    /\ stopSource = "none"
    /\ lastOp = "Submit"

NextAsm ==
    \/ StreamChunk
    \/ StreamEnd
    \/ ClickStopMidStream

AssembleSpec == InitAsm /\ [][NextAsm]_vars

\* The texts of a fragment sequence, in order, fragments without text skipped
RECURSIVE ConcatTexts(_)
ConcatTexts(frags) ==
    IF frags = <<>> THEN <<>>
    ELSE (IF Head(frags).kind = "text" THEN Head(frags).text ELSE <<>>)
         \o ConcatTexts(Tail(frags))

LastContent(msgs) == msgs[Len(msgs)].content

HelLoWorld == << Txt(<<"Hel">>), Txt(<<"lo ">>), Txt(<<"world">>) >>

\* C12: the assembled reply is the in-order concatenation of the texts of
\* the fragments taken into the reply before the stop (all of them when no
\* stop comes), fragments without text skipped; it is aborted exactly when a
\* stop was requested.  ["Hel","lo ","world"] gives "Hello world", not
\* aborted, without stop, and "Hel", aborted, with the stop after the 1st.
C12_AssembledTextIsPrefixConcat ==
    [][ (pc = "streaming" /\ pc' = "idle") =>
            LET input == pulled \o stream
                n == IF stop_requested THEN stopAt ELSE Len(input)
                result == LastContent(messages')
            IN  /\ result = ConcatTexts(SubSeq(input, 1, n))
                /\ (lastOutcome' = "aborted") <=> stop_requested
                /\ (input = HelLoWorld /\ ~stop_requested) =>
                      (result = <<"Hel", "lo ", "world">> /\ lastOutcome' = "completed")
                /\ (input = HelLoWorld /\ stop_requested /\ stopAt = 1) =>
                      (result = <<"Hel">> /\ lastOutcome' = "aborted") ]_vars

\* ["Hel","lo ","world"] with the stop after the 1st fragment
C12_Witness ==
    /\ pc = "idle" /\ lastOutcome = "aborted" /\ stopAt = 1
    /\ pulled = << Txt(<<"Hel">>), Txt(<<"lo ">>) >>
    /\ LastContent(messages) = <<"Hel">>

\* C13: the stream raising mid-stream with no stop requested: the text
\* accumulated is appended as the turn's assistant message, the count goes
\* up by one, the stop flags stay as they were, and the session stays in the
\* interview phase, ready to take the next message.
C13_StreamFailureNotFatal ==
    [][ (lastOp' = "StreamRaise" /\ ~stop_requested) =>
            /\ user_message_count < 4
            /\ messages' = Append(messages, Msg("assistant", full_response))
            /\ user_message_count' = user_message_count + 1
            /\ stop_requested' = stop_requested
            /\ stopped_early' = stopped_early
            /\ InterviewPhase(SS') /\ pc' = "idle"
            /\ "input" \in ui' /\ Accepts(SS', FALSE) ]_vars

\* The stream of turn 4 raised after two fragments
C13_Witness ==
    /\ lastOp = "StreamRaise" /\ ~stop_requested /\ user_message_count = 4
    /\ LastContent(messages) = <<"Hel", "lo ">>

IsPrefix(a, b) == Len(a) <= Len(b) /\ SubSeq(b, 1, Len(a)) = a

\* A text cut at its "\n" tokens
RECURSIVE SplitLines(_)
SplitLines(text) ==
    IF \A i \in DOMAIN text : text[i] # "\n" THEN << text >>
    ELSE LET i == CHOOSE j \in DOMAIN text :
                      text[j] = "\n" /\ \A k \in 1..(j - 1) : text[k] # "\n"
         IN  << SubSeq(text, 1, i - 1) >> \o SplitLines(SubSeq(text, i + 1, Len(text)))

\* C14: once the interview has begun the transcript holds exactly one system
\* message, as its first element; the transcript only grows by appends; on
\* the feedback screen the export and the text sent for scoring are the
\* "role: content" lines of all messages in transcript order, the system
\* line first.
C14_TranscriptAppendOnlyAndExport ==
    /\ [](setup_complete =>
              /\ NumRole(messages, "system") = 1
              /\ messages[1] = Msg("system", SystemText))
    /\ [](Scores(SS) =>
              LET lines == SplitLines(Transcript(SS)) IN
              /\ ConversationHistory(SS) = Transcript(SS)
              /\ Len(lines) = Len(messages)
              /\ \A i \in DOMAIN lines :
                    lines[i] = << messages[i].role, ": " >> \o messages[i].content
              /\ lines[1] = << "system", ": " >> \o SystemText)
    /\ [][lastOp' # "Restart" => IsPrefix(messages, messages')]_vars

\* One turn with a reply, then feedback: three lines
C14_Witness ==
    /\ Scores(SS) /\ feedback_view = "report"
    /\ Len(messages) = 3 /\ messages[3] = Msg("assistant", <<"Hel", "lo ", "world">>)
    /\ Len(SplitLines(Transcript(SS))) = 3

\* C15: a message submitted with user_message_count >= 5 or with
\* stop_requested true changes nothing: transcript, count, flags and phase
\* stay as they are and no completion call is made.
C15_RejectedInputNoMutation ==
    [][ (lastOp' = "Submit" /\ (user_message_count >= 5 \/ stop_requested)) =>
            /\ SS' = SS
            /\ completionCalls' = completionCalls
            /\ pc' = "idle"
            /\ lastOutcome' = "rejected" ]_vars

\* A 6th message sent from the input left on the page by the 5th turn's run
C15_Witness ==
    /\ lastOp = "Submit" /\ lastOutcome = "rejected"
    /\ user_message_count = 5 /\ NumUser = 5 /\ ~stop_requested

C17_StopCheckedBeforeEveryPull ==
    /\ midStopTurn > 0 => Len(pulled) = stopAt
    /\ pc = "streaming" => full_response = ConcatTexts(pulled)
    /\ (pc = "idle" /\ lastOutcome \in {"completed", "aborted", "stream_raised"}) =>
          LastContent(messages) = ConcatTexts(pulled)

\* C18: between runs, after k accepted messages the transcript holds
\* min(k, 4) assistant messages, each directly after the user message of
\* its turn.
C18_OneAssistantPerReplyTurn ==
    pc = "idle" =>
        /\ NumAssistant = (IF NumUser < 4 THEN NumUser ELSE 4)
        /\ \A i \in DOMAIN messages :
              (messages[i].role = "user" /\ NumRole(SubSeq(messages, 1, i), "user") <= 4) =>
                  (i < Len(messages) /\ messages[i + 1].role = "assistant")

\* C19: between turn handlers the number of user messages in the transcript
\* is user_message_count, and 0 <= user_message_count <= 5.
C19_UserMessagesEqualCount ==
    pc = "idle" =>
        /\ NumRole(messages, "user") = user_message_count
        /\ user_message_count \in 0..5

\* Three turns, the completion call of the third failed
C19_Witness ==
    /\ pc = "idle" /\ lastOutcome = "create_failed"
    /\ user_message_count = 3 /\ NumUser = 3 /\ NumAssistant = 2

\* C20: with the interview ended, between runs an action is offered: Get
\* Feedback when not stopped early, count > 0 and feedback not shown,
\* Restart otherwise; chat_complete with count 0 and stopped_early false is
\* never reached; feedback is shown only with stopped_early false and
\* count > 0.
C20_NoDeadEnd ==
    /\ (chat_complete /\ pc = "idle") =>
          IF ~stopped_early /\ user_message_count > 0 /\ ~feedback_shown
          THEN "feedback" \in ui
          ELSE ui \cap {"restart_early", "restart"} # {}
    /\ ~(chat_complete /\ user_message_count = 0 /\ ~stopped_early)
    /\ feedback_shown => (~stopped_early /\ user_message_count > 0)

\* Stopped while the first reply streamed: count 1, stopped early, Restart
C20_Witness ==
    /\ chat_complete /\ pc = "idle" /\ stopped_early /\ user_message_count = 1
    /\ "restart_early" \in ui /\ "feedback" \notin ui

====
